---- MODULE Spec2Model ----
(***************************************************************************)
(* hotel-backend: the outbound e-mail dispatcher (utils/email_resend.go,   *)
(* utils/admin_invite_email.go) and the room handlers with their access-   *)
(* code generator (controllers/room_controller.go).                        *)
(*                                                                         *)
(* Go strings are modelled as sequences of one-character strings; the      *)
(* characters space, tab, carriage return and line feed are written        *)
(* "SP", "TAB", "CR" and "LF".                                             *)
(*                                                                         *)
(* email_resend.go is modelled from its first declaration of the package   *)
(* (lines 1-201, where a blank RESEND_API_KEY falls through to             *)
(* sendSMTPEmail).  Display names, the subject and the MIME/JSON encoding  *)
(* steer no branch of the dispatcher and are left out of a send's record.  *)
(***************************************************************************)
EXTENDS Integers, Sequences, FiniteSets, TLC

VARIABLES env, mail, rooms, nextID, proc, concurrent

vars == <<env, mail, rooms, nextID, proc, concurrent>>

mailVars == <<env, mail>>

roomVars == <<rooms, nextID, proc, concurrent>>

(***************************************************************************)
(* package strings                                                         *)
(***************************************************************************)
UpperLetters == <<"A","B","C","D","E","G","I","L","N","O","V">>

LowerLetters == <<"a","b","c","d","e","g","i","l","n","o","v">>

\* unicode.IsSpace on the characters of the model
IsSpace(c) == c \in {"SP", "TAB", "CR", "LF"}

RECURSIVE TrimLeftSpace(_)
TrimLeftSpace(s) ==
    IF s = <<>> THEN <<>>
    ELSE IF IsSpace(Head(s)) THEN TrimLeftSpace(Tail(s)) ELSE s

RECURSIVE TrimRightSpace(_)
TrimRightSpace(s) ==
    IF s = <<>> THEN <<>>
    ELSE IF IsSpace(s[Len(s)]) THEN TrimRightSpace(SubSeq(s, 1, Len(s) - 1)) ELSE s

\* strings.TrimSpace
TrimSpace(s) == TrimRightSpace(TrimLeftSpace(s))

\* unicode.ToLower on one character
LowerChar(c) ==
    IF \E i \in 1..Len(UpperLetters) : UpperLetters[i] = c
    THEN LowerLetters[CHOOSE i \in 1..Len(UpperLetters) : UpperLetters[i] = c]
    ELSE c

\* strings.ToLower
ToLower(s) == [i \in 1..Len(s) |-> LowerChar(s[i])]

\* strings.EqualFold
EqualFold(s, t) == ToLower(s) = ToLower(t)

\* strings.Split(s, sep) for a one-character separator: always at least one part
RECURSIVE SplitFrom(_, _, _)
SplitFrom(s, sep, cur) ==
    IF s = <<>> THEN <<cur>>
    ELSE IF Head(s) = sep THEN <<cur>> \o SplitFrom(Tail(s), sep, <<>>)
    ELSE SplitFrom(Tail(s), sep, Append(cur, Head(s)))

Split(s, sep) == SplitFrom(s, sep, <<>>)

\* strings.HasPrefix
HasPrefix(s, p) == Len(s) >= Len(p) /\ SubSeq(s, 1, Len(p)) = p

\* strings.TrimLeft(s, cutset)
RECURSIVE TrimLeft(_, _)
TrimLeft(s, cutset) ==
    IF s = <<>> THEN <<>>
    ELSE IF Head(s) \in cutset THEN TrimLeft(Tail(s), cutset) ELSE s

\* strings.ReplaceAll(s, "\r\n", " "): left to right, non-overlapping
RECURSIVE ReplaceCRLF(_)
ReplaceCRLF(s) ==
    IF s = <<>> THEN <<>>
    ELSE IF Len(s) >= 2 /\ s[1] = "CR" /\ s[2] = "LF"
         THEN <<"SP">> \o ReplaceCRLF(SubSeq(s, 3, Len(s)))
         ELSE <<Head(s)>> \o ReplaceCRLF(Tail(s))

\* strings.Join(parts, ",")
RECURSIVE JoinComma(_)
JoinComma(parts) ==
    IF parts = <<>> THEN <<>>
    ELSE IF Len(parts) = 1 THEN parts[1]
    ELSE parts[1] \o <<",">> \o JoinComma(Tail(parts))

(***************************************************************************)
(* Bounds and input domains of the e-mail model                            *)
(***************************************************************************)
\* most comma-separated entries in RESEND_FROM_EMAILS
MaxAllowParts == 2

\* the entries RESEND_FROM_EMAILS is built from
AllowParts == {<<>>, <<"a">>, <<"SP", "B">>}

RECURSIVE PartLists(_)
PartLists(n) ==
    IF n = 0 THEN {<<>>}
    ELSE PartLists(n - 1) \cup
         {Append(l, p) : l \in {x \in PartLists(n - 1) : Len(x) = n - 1}, p \in AllowParts}

AllowListValues == {JoinComma(l) : l \in PartLists(MaxAllowParts)}

KeyValues == {<<>>, <<"SP">>, <<"k">>}

HostValues == {<<>>, <<"h">>}

PortValues == {<<>>, <<"2", "5">>}

PassValues == {<<>>, <<"w">>}

UserValues == {<<>>, <<"a">>, <<"SP", "c">>}

FromEmailValues == {<<>>, <<"b">>, <<"A", "SP">>}

\* requested sender addresses
Senders == {<<>>, <<"SP">>, <<"SP", "A">>, <<"b">>, <<"C">>, <<"d">>}

\* recipient lists
Recipients == {<<>>, << <<"x">> >>}

Envs ==
    [RESEND_API_KEY : KeyValues, RESEND_FROM_EMAIL : FromEmailValues,
     RESEND_FROM_EMAILS : AllowListValues, SMTP_HOST : HostValues,
     SMTP_PORT : PortValues, SMTP_USERNAME : UserValues,
     SMTP_PASSWORD : PassValues]

(***************************************************************************)
(* utils/email_resend.go                                                   *)
(***************************************************************************)
resendDefaultFrom(e) ==
    LET value == TrimSpace(e.RESEND_FROM_EMAIL)
    IN  IF value = <<>> THEN TrimSpace(e.SMTP_USERNAME) ELSE value

parseAllowedFromEmails(e) ==
    LET raw == TrimSpace(e.RESEND_FROM_EMAILS)
        parts == Split(raw, ",")
        allowed == {ToLower(TrimSpace(parts[i])) : i \in 1..Len(parts)} \ {<<>>}
        def == ToLower(TrimSpace(resendDefaultFrom(e)))
    IN  IF allowed = {}
        THEN (IF def # <<>> THEN {def} ELSE {})
        ELSE allowed

\* the same, without the membership test
resolveFromEmail_NoAllowCheck(e, requested) ==
    LET trimmed == TrimSpace(requested)
        value == IF trimmed = <<>> THEN resendDefaultFrom(e) ELSE trimmed
    IN  IF value = <<>>
        THEN [value |-> <<>>, err |-> "SenderNotConfigured"]
        ELSE [value |-> value, err |-> "nil"]

\* the same, looking the address up without lower-casing it
resolveFromEmail_CaseSensitive(e, requested) ==
    LET trimmed == TrimSpace(requested)
        value == IF trimmed = <<>> THEN resendDefaultFrom(e) ELSE trimmed
        allowed == parseAllowedFromEmails(e)
    IN  IF value = <<>>
        THEN [value |-> <<>>, err |-> "SenderNotConfigured"]
        ELSE IF allowed # {} /\ value \notin allowed
        THEN [value |-> <<>>, err |-> "SenderNotAllowed"]
        ELSE [value |-> value, err |-> "nil"]

resolveFromEmail(e, requested) ==
    LET trimmed == TrimSpace(requested)
        value == IF trimmed = <<>> THEN resendDefaultFrom(e) ELSE trimmed
        allowed == parseAllowedFromEmails(e)
    IN  IF value = <<>>
        THEN [value |-> <<>>, err |-> "SenderNotConfigured"]
        ELSE IF allowed # {} /\ ToLower(value) \notin allowed
        THEN [value |-> <<>>, err |-> "SenderNotAllowed"]
        ELSE [value |-> value, err |-> "nil"]

\* the result of one send: the branch taken, the error returned, and the
\* network calls issued (at most one)
SendResult(path, err, net) == [path |-> path, err |-> err, net |-> net]

\* the same, without the comparison of the sender with SMTP_USERNAME
sendSMTPEmail_NoSenderCheck(e, to, fromEmail, netOk) ==
    LET smtpHost == TrimSpace(e.SMTP_HOST)
        smtpPort == TrimSpace(e.SMTP_PORT)
        smtpUser == TrimSpace(e.SMTP_USERNAME)
        smtpPass == TrimSpace(e.SMTP_PASSWORD)
        trimmed == TrimSpace(fromEmail)
        from == IF trimmed = <<>> THEN smtpUser ELSE trimmed
    IN  IF smtpHost = <<>> \/ smtpPort = <<>> \/ smtpUser = <<>> \/ smtpPass = <<>>
        THEN SendResult("mock", "nil", <<>>)
        ELSE IF to = <<>>
        THEN SendResult("smtp", "EmptyRecipients", <<>>)
        ELSE SendResult("smtp", IF netOk THEN "nil" ELSE "TransportError",
                        << [transport |-> "smtp", from |-> from,
                            envelope |-> smtpUser, to |-> to] >>)

\* the same, sending to an empty recipient list
sendSMTPEmail_NoRecipientCheck(e, to, fromEmail, netOk) ==
    LET smtpHost == TrimSpace(e.SMTP_HOST)
        smtpPort == TrimSpace(e.SMTP_PORT)
        smtpUser == TrimSpace(e.SMTP_USERNAME)
        smtpPass == TrimSpace(e.SMTP_PASSWORD)
        trimmed == TrimSpace(fromEmail)
        from == IF trimmed = <<>> THEN smtpUser ELSE trimmed
    IN  IF smtpHost = <<>> \/ smtpPort = <<>> \/ smtpUser = <<>> \/ smtpPass = <<>>
        THEN SendResult("mock", "nil", <<>>)
        ELSE IF ToLower(from) # ToLower(smtpUser)
        THEN SendResult("smtp", "SenderMismatch", <<>>)
        ELSE SendResult("smtp", IF netOk THEN "nil" ELSE "TransportError",
                        << [transport |-> "smtp", from |-> from,
                            envelope |-> smtpUser, to |-> to] >>)

sendSMTPEmail(e, to, fromEmail, netOk) ==
    LET smtpHost == TrimSpace(e.SMTP_HOST)
        smtpPort == TrimSpace(e.SMTP_PORT)
        smtpUser == TrimSpace(e.SMTP_USERNAME)
        smtpPass == TrimSpace(e.SMTP_PASSWORD)
        trimmed == TrimSpace(fromEmail)
        from == IF trimmed = <<>> THEN smtpUser ELSE trimmed
    IN  IF smtpHost = <<>> \/ smtpPort = <<>> \/ smtpUser = <<>> \/ smtpPass = <<>>
        THEN SendResult("mock", "nil", <<>>)
        ELSE IF to = <<>>
        THEN SendResult("smtp", "EmptyRecipients", <<>>)
        ELSE IF ToLower(from) # ToLower(smtpUser)
        THEN SendResult("smtp", "SenderMismatch", <<>>)
        ELSE SendResult("smtp", IF netOk THEN "nil" ELSE "TransportError",
                        << [transport |-> "smtp", from |-> from,
                            envelope |-> smtpUser, to |-> to] >>)

\* the same, trying the direct-SMTP transport before the hosted API
sendResendEmail_SMTPFirst(e, to, fromEmail, netOk) ==
    LET apiKey == TrimSpace(e.RESEND_API_KEY)
        viaSMTP == sendSMTPEmail(e, to, fromEmail, netOk)
        resolved == resolveFromEmail(e, fromEmail)
    IN  IF apiKey = <<>> \/ viaSMTP.path = "smtp"
        THEN viaSMTP
        ELSE IF to = <<>>
        THEN SendResult("resend", "EmptyRecipients", <<>>)
        ELSE IF resolved.err # "nil"
        THEN SendResult("resend", resolved.err, <<>>)
        ELSE SendResult("resend", IF netOk THEN "nil" ELSE "TransportError",
                        << [transport |-> "resend", from |-> resolved.value,
                            envelope |-> resolved.value, to |-> to] >>)

sendResendEmail(e, to, fromEmail, netOk) ==
    LET apiKey == TrimSpace(e.RESEND_API_KEY)
        resolved == resolveFromEmail(e, fromEmail)
    IN  IF apiKey = <<>>
        THEN sendSMTPEmail(e, to, fromEmail, netOk)
        ELSE IF to = <<>>
        THEN SendResult("resend", "EmptyRecipients", <<>>)
        ELSE IF resolved.err # "nil"
        THEN SendResult("resend", resolved.err, <<>>)
        ELSE SendResult("resend", IF netOk THEN "nil" ELSE "TransportError",
                        << [transport |-> "resend", from |-> resolved.value,
                            envelope |-> resolved.value, to |-> to] >>)

(***************************************************************************)
(* utils/admin_invite_email.go                                             *)
(***************************************************************************)
\* most characters of a free-text field of an invitation
MaxTextLen == 3

TextChars == {"a", "SP", "CR", "LF"}

RECURSIVE TextsOfLen(_)
TextsOfLen(n) ==
    IF n = 0 THEN {<<>>}
    ELSE {Append(t, c) : t \in TextsOfLen(n - 1), c \in TextChars}

FreeTexts == UNION {TextsOfLen(n) : n \in 0..MaxTextLen}

Roles == {<<"r">>, <<"SP", "r", "CR", "LF", "x", "LF">>}

Links ==
    {<<"h","t","t","p",":","/","/","a">>,
     <<"h","t","t","p","s",":","/","/","a">>,
     <<"/","/","a">>,
     <<"SP","a","LF","b","SP">>}

\* the configurations an invitation is sent under
InviteEnvs ==
    {e \in Envs : e.RESEND_FROM_EMAILS = <<>> /\ e.RESEND_FROM_EMAIL = <<>>
                  /\ e.SMTP_PORT = <<"2", "5">> /\ e.SMTP_PASSWORD = <<"w">>
                  /\ e.SMTP_USERNAME = <<"a">> /\ e.RESEND_API_KEY # <<"SP">>}

safe(s) == ReplaceCRLF(TrimSpace(s))

normalizeInviteLink(l) ==
    IF HasPrefix(l, <<"h","t","t","p",":","/","/">>)
       \/ HasPrefix(l, <<"h","t","t","p","s",":","/","/">>)
    THEN l
    ELSE <<"h","t","t","p","s",":","/","/">> \o TrimLeft(l, {"/"})

Lit(text) == [kind |-> "lit", s |-> text]

Arg(s) == [kind |-> "arg", s |-> s]

\* the plain-text body: the format string's literal pieces and its three verbs
plainBody(name, role, inviteLink) ==
    << Lit("Hi "), Arg(name),
       Lit(",\n\nYou have been invited to join Horizon Hotel as a "), Arg(role),
       Lit(".\nPlease set your password using the link below:\n"), Arg(inviteLink),
       Lit("\n\nIf you did not expect this invitation, you can ignore this email.\n") >>

\* the HTML body, likewise
htmlBody(name, role, inviteLink) ==
    << Lit("<!doctype html>...<p>Hi "), Arg(name),
       Lit(",</p><p>You have been invited to join Horizon Hotel as a <strong>"), Arg(role),
       Lit("</strong>.</p>...<a class=btn href="), Arg(inviteLink),
       Lit(" target=_blank>Set up my account</a>...</html>") >>

SendAdminInviteEmail(e, recipientEmail, inviteLink, name, role, fromEmail, netOk) ==
    LET n == safe(name)
        r == safe(role)
        l == normalizeInviteLink(safe(inviteLink))
    IN  [op |-> "invite",
         plainBody |-> plainBody(n, r, l),
         htmlBody |-> htmlBody(n, r, l),
         res |-> sendResendEmail(e, <<recipientEmail>>, fromEmail, netOk)]

(***************************************************************************)
(* controllers/room_controller.go: the room store                          *)
(***************************************************************************)
\* most rooms ever inserted (the store's auto-increment id stops there)
MaxRooms == 2

\* the loop bound of generateUniqueAccessCode
MaxAttempts == 5

\* the exclusive upper bound of the random number
RandMax == 1000000

\* the width of the %06d verb
CodeWidth == 6

Procs == {"p1", "p2"}

DigitChars == <<"0","1","2","3","4","5","6","7","8","9">>

\* the decimal digits of n, most significant first (the %d verb)
RECURSIVE Decimal(_)
Decimal(n) ==
    IF n < 10 THEN <<DigitChars[n + 1]>>
    ELSE Append(Decimal(n \div 10), DigitChars[(n % 10) + 1])

\* fmt.Sprintf("%06d", n) for n >= 0: zero-padded on the left to the width
RECURSIVE PadZero(_)
PadZero(s) == IF Len(s) >= CodeWidth THEN s ELSE PadZero(<<"0">> \o s)

Sprintf06d(n) == PadZero(Decimal(n))

\* the numbers the random source is seen to return
RandSamples == {7, RandMax - 1}

Cleaning == <<"C","l","e","a","n","i","n","g">>

CleaningUpper == <<"C","L","E","A","N","I","N","G">>

Available == <<"A","v","a","i","l","a","b","l","e">>

AvailableLower == <<"a","v","a","i","l","a","b","l","e">>

Occupied == <<"O","c","c","u","p","i","e","d">>

\* the rows of the room_types table
RoomTypes == {1}

\* SELECT count(*) FROM rooms WHERE access_code = code
CountAccessCode(store, code) == Cardinality({r \in store : r.accessCode = code})

\* the columns of rooms under a unique index
UniqueColumns == {"room_number"}

\* whether inserting a row would break a unique index
Duplicate(store, roomNumber, accessCode) ==
    \/ "room_number" \in UniqueColumns /\ \E r \in store : r.roomNumber = roomNumber
    \/ "access_code" \in UniqueColumns /\ \E r \in store : r.accessCode = accessCode

(***************************************************************************)
(* generateUniqueAccessCode: one iteration of its loop.  i is the loop     *)
(* counter on entry; the result says whether the function returns and      *)
(* with what.                                                              *)
(***************************************************************************)
GenResult(res, code, i) == [res |-> res, code |-> code, i |-> i]

\* the same, returning the code without counting the rooms that hold it
generateAttempt_NoCount(store, i, randErr, n, storeErr) ==
    IF randErr THEN GenResult("rand", <<>>, i)
    ELSE GenResult("ok", Sprintf06d(n), i)

\* the same, with the loop running one attempt longer (i <= 5)
generateAttempt_OneMore(store, i, randErr, n, storeErr) ==
    LET code == Sprintf06d(n)
    IN  IF randErr THEN GenResult("rand", <<>>, i)
        ELSE IF storeErr THEN GenResult("store", <<>>, i)
        ELSE IF CountAccessCode(store, code) = 0 THEN GenResult("ok", code, i)
        ELSE IF i + 1 <= MaxAttempts THEN GenResult("running", <<>>, i + 1)
        ELSE GenResult("exhausted", <<>>, i + 1)

generateAttempt(store, i, randErr, n, storeErr) ==
    LET code == Sprintf06d(n)
    IN  IF randErr THEN GenResult("rand", <<>>, i)
        ELSE IF storeErr THEN GenResult("store", <<>>, i)
        ELSE IF CountAccessCode(store, code) = 0 THEN GenResult("ok", code, i)
        ELSE IF i + 1 < MaxAttempts THEN GenResult("running", <<>>, i + 1)
        ELSE GenResult("exhausted", <<>>, i + 1)

(***************************************************************************)
(* The handlers.  A handler runs as a process p: it binds and validates    *)
(* the request (Begin), runs the generator's loop one attempt at a time    *)
(* (GenAttempt), writes to the store (Write) and returns (Return).         *)
(* bound, valid, attempts, collisions, n, before, generated, stale and     *)
(* raced record history: bound says the payload was parsed, valid that the *)
(* request passed the checks before the access-code step.                  *)
(***************************************************************************)
IdleProc ==
    [pc |-> "idle", op |-> "none", id |-> 0, bound |-> FALSE, valid |-> FALSE,
     roomNumber |-> <<>>, hasStatus |-> FALSE, status |-> <<>>,
     storedStatus |-> <<>>, supplied |-> FALSE, suppliedCode |-> <<>>,
     hasCode |-> FALSE, code |-> <<>>,
     genCalled |-> FALSE, genRes |-> "none", i |-> 0,
     attempts |-> 0, collisions |-> 0, n |-> 0, stale |-> FALSE,
     before |-> {}, resp |-> 0]

RoomInitVars ==
    /\ rooms = {}
    /\ nextID = 1
    /\ proc = [p \in Procs |-> IdleProc]

InFlight(p) == proc[p].pc \in {"gen", "write"}

\* a run that is not concurrent serves its requests one at a time, on one process
CanStart(p) ==
    /\ proc[p].pc = "idle"
    /\ concurrent \/ p = "p1"

Respond(p, rec, code) ==
    proc' = [proc EXCEPT ![p] = [rec EXCEPT !.pc = "done", !.resp = code]]

\* CreateRoom up to the decision to generate a code
CreateBegin(p, bindOk, roomNumber, roomTypeID, accessCode, status) ==
    LET unbound == [IdleProc EXCEPT !.op = "create", !.before = rooms]
        rec == [unbound EXCEPT !.bound = TRUE, !.roomNumber = TrimSpace(roomNumber),
                               !.hasStatus = TRUE, !.status = status,
                               !.supplied = TRUE, !.suppliedCode = accessCode,
                               !.hasCode = TRUE, !.code = accessCode]
    IN  /\ CanStart(p)
        /\ nextID + Cardinality({q \in Procs : InFlight(q) /\ proc[q].op = "create"})
               <= MaxRooms
        /\ IF ~bindOk THEN Respond(p, unbound, 400)
           ELSE IF TrimSpace(roomNumber) = <<>>
                   \/ (roomTypeID # <<>> /\ roomTypeID[1] \notin RoomTypes)
           THEN Respond(p, rec, 400)
           ELSE IF TrimSpace(accessCode) = <<>>
           THEN proc' = [proc EXCEPT ![p] =
                    [rec EXCEPT !.pc = "gen", !.valid = TRUE, !.genCalled = TRUE,
                                !.genRes = "running"]]
           ELSE proc' = [proc EXCEPT ![p] = [rec EXCEPT !.pc = "write", !.valid = TRUE]]
        /\ UNCHANGED <<rooms, nextID, concurrent, mailVars>>

\* the same, comparing the two statuses exactly
needsNewCode_CaseSensitive(existingStatus, hasStatus, status) ==
    hasStatus /\ existingStatus = Cleaning /\ status = Available

\* UpdateRoom's test for a transition from Cleaning to Available
needsNewCode(existingStatus, hasStatus, status) ==
    hasStatus /\ EqualFold(existingStatus, Cleaning) /\ EqualFold(status, Available)

\* UpdateRoom up to the decision to generate a code
UpdateBegin(p, bindOk, id, hasStatus, status, hasCamel, camelCode, hasSnake, snakeCode) ==
    LET hasCode == hasCamel \/ hasSnake
        code == IF hasCamel THEN camelCode ELSE IF hasSnake THEN snakeCode ELSE <<>>
        found == \E r \in rooms : r.id = id
        existing == CHOOSE r \in rooms : r.id = id
        unbound == [IdleProc EXCEPT !.op = "update", !.id = id, !.before = rooms]
        rec == [unbound EXCEPT !.bound = TRUE, !.hasStatus = hasStatus,
                               !.status = IF hasStatus THEN status ELSE <<>>,
                               !.supplied = hasCode, !.suppliedCode = code,
                               !.hasCode = hasCode, !.code = code]
    IN  /\ CanStart(p)
        /\ IF ~bindOk THEN Respond(p, unbound, 400)
           ELSE IF ~found THEN Respond(p, rec, 404)
           ELSE IF needsNewCode(existing.status, hasStatus, status)
           THEN proc' = [proc EXCEPT ![p] =
                    [rec EXCEPT !.pc = "gen", !.valid = TRUE,
                                !.storedStatus = existing.status,
                                !.genCalled = TRUE, !.genRes = "running"]]
           ELSE proc' = [proc EXCEPT ![p] =
                    [rec EXCEPT !.pc = "write", !.valid = TRUE,
                                !.storedStatus = existing.status]]
        /\ UNCHANGED <<rooms, nextID, concurrent, mailVars>>

\* one iteration of the generator's loop, and the handler's reaction when the
\* generator returns
GenAttempt(p, randErr, n, storeErr) ==
    LET rec == proc[p]
        g == generateAttempt(rooms, rec.i, randErr, n, storeErr)
        collided == ~randErr /\ ~storeErr
                    /\ \E r \in rooms : r.accessCode = Sprintf06d(n)
        seen == [rec EXCEPT !.i = g.i, !.genRes = g.res,
                            !.attempts = rec.attempts + 1,
                            !.collisions = rec.collisions + (IF collided THEN 1 ELSE 0)]
    IN  /\ rec.pc = "gen"
        /\ IF g.res = "running" THEN proc' = [proc EXCEPT ![p] = seen]
           ELSE IF g.res = "ok"
           THEN proc' = [proc EXCEPT ![p] =
                    [seen EXCEPT !.pc = "write", !.hasCode = TRUE, !.code = g.code,
                                 !.n = n]]
           ELSE Respond(p, seen, 500)
        /\ UNCHANGED <<rooms, nextID, concurrent, mailVars>>

\* the processes whose generated code stops being unused when code is written
Overtaken(p, code) ==
    {q \in Procs \ {p} : proc[q].pc = "write" /\ proc[q].genRes = "ok"
                         /\ proc[q].code = code}

\* config.DB.Create(&room) and the response
CreateWrite(p, dbErr) ==
    LET rec == proc[p]
        room == [id |-> nextID, roomNumber |-> rec.roomNumber, status |-> rec.status,
                 accessCode |-> rec.code, generated |-> rec.genRes = "ok",
                 raced |-> rec.stale]
    IN  /\ rec.pc = "write" /\ rec.op = "create"
        /\ IF dbErr
           THEN Respond(p, rec, 500) /\ UNCHANGED <<rooms, nextID>>
           ELSE IF Duplicate(rooms, rec.roomNumber, rec.code)
           THEN Respond(p, rec, 409) /\ UNCHANGED <<rooms, nextID>>
           ELSE /\ rooms' = rooms \cup {room}
                /\ nextID' = nextID + 1
                /\ proc' = [q \in Procs |->
                       IF q = p THEN [rec EXCEPT !.pc = "done", !.resp = 201, !.id = nextID]
                       ELSE IF q \in Overtaken(p, rec.code)
                       THEN [proc[q] EXCEPT !.stale = TRUE]
                       ELSE proc[q]]
        /\ UNCHANGED <<concurrent, mailVars>>

\* config.DB.Model(&models.Room{}).Where("id = ?", id).Updates(updateData)
UpdateWrite(p, dbErr) ==
    LET rec == proc[p]
        upd(r) == [r EXCEPT
                     !.status = IF rec.hasStatus THEN rec.status ELSE @,
                     !.accessCode = IF rec.hasCode THEN rec.code ELSE @,
                     !.generated = IF rec.hasCode THEN rec.genRes = "ok" ELSE @,
                     !.raced = IF rec.hasCode THEN rec.stale ELSE @]
        hit == \E r \in rooms : r.id = rec.id
    IN  /\ rec.pc = "write" /\ rec.op = "update"
        /\ IF dbErr
           THEN Respond(p, rec, 500) /\ UNCHANGED rooms
           ELSE /\ rooms' = {IF r.id = rec.id THEN upd(r) ELSE r : r \in rooms}
                /\ proc' = [q \in Procs |->
                       IF q = p THEN [rec EXCEPT !.pc = "done", !.resp = 200]
                       ELSE IF hit /\ rec.hasCode /\ q \in Overtaken(p, rec.code)
                       THEN [proc[q] EXCEPT !.stale = TRUE]
                       ELSE proc[q]]
        /\ UNCHANGED <<nextID, concurrent, mailVars>>

\* DeleteRoom
DeleteRoom(p, id, dbErr) ==
    LET rec == [IdleProc EXCEPT !.op = "delete", !.id = id, !.before = rooms]
    IN  /\ CanStart(p)
        /\ IF dbErr
           THEN Respond(p, rec, 500) /\ UNCHANGED rooms
           ELSE IF ~\E r \in rooms : r.id = id
           THEN Respond(p, rec, 404) /\ UNCHANGED rooms
           ELSE Respond(p, rec, 200) /\ rooms' = {r \in rooms : r.id # id}
        /\ UNCHANGED <<nextID, concurrent, mailVars>>

\* the handler has written its response
Return(p) ==
    /\ proc[p].pc = "done"
    /\ proc' = [proc EXCEPT ![p] = IdleProc]
    /\ UNCHANGED <<rooms, nextID, concurrent, mailVars>>

(***************************************************************************)
(* The requests of the model                                               *)
(***************************************************************************)
RoomNumbers == {<<"SP">>, <<"1">>, <<"2", "SP">>}

RoomTypeIDs == {<<>>, <<1>>, <<2>>}

CreateCodes == {<<>>, <<"SP">>, Sprintf06d(7)}

CreateStatuses == {CleaningUpper}

UpdateStatuses == {Cleaning, AvailableLower, Occupied}

CamelCodes == {Sprintf06d(7)}

SnakeCodes == {Sprintf06d(RandMax - 1)}

RoomNext ==
    \/ \E p \in Procs, ok \in BOOLEAN, rn \in RoomNumbers, rt \in RoomTypeIDs,
          ac \in CreateCodes, st \in CreateStatuses :
           CreateBegin(p, ok, rn, rt, ac, st)
    \/ \E p \in Procs, ok \in BOOLEAN, id \in 1..MaxRooms, hs \in BOOLEAN,
          st \in UpdateStatuses, hc \in BOOLEAN, cc \in CamelCodes,
          hk \in BOOLEAN, sc \in SnakeCodes :
           UpdateBegin(p, ok, id, hs, st, hc, cc, hk, sc)
    \/ \E p \in Procs, randErr \in BOOLEAN, n \in RandSamples, storeErr \in BOOLEAN :
           GenAttempt(p, randErr, n, storeErr)
    \/ \E p \in Procs, dbErr \in BOOLEAN : CreateWrite(p, dbErr)
    \/ \E p \in Procs, dbErr \in BOOLEAN : UpdateWrite(p, dbErr)
    \/ \E p \in Procs, id \in 1..MaxRooms, dbErr \in BOOLEAN : DeleteRoom(p, id, dbErr)
    \/ \E p \in Procs : Return(p)

\* the requests of an interleaved run: well-formed, no injected failures
ConcNext ==
    \/ \E p \in Procs, rn \in {<<"1">>, <<"2">>}, ac \in {<<>>, Sprintf06d(7)} :
           CreateBegin(p, TRUE, rn, <<>>, ac, Cleaning)
    \/ \E p \in Procs, id \in 1..MaxRooms :
           UpdateBegin(p, TRUE, id, TRUE, Available, FALSE, <<>>, FALSE, <<>>)
    \/ \E p \in Procs : GenAttempt(p, FALSE, 7, FALSE)
    \/ \E p \in Procs : CreateWrite(p, FALSE)
    \/ \E p \in Procs : UpdateWrite(p, FALSE)
    \/ \E p \in Procs, id \in 1..MaxRooms : DeleteRoom(p, id, FALSE)
    \/ \E p \in Procs : Return(p)

RoomInit(conc) ==
    /\ RoomInitVars
    /\ concurrent = conc
    /\ env = [RESEND_API_KEY |-> <<>>, RESEND_FROM_EMAIL |-> <<>>,
              RESEND_FROM_EMAILS |-> <<>>, SMTP_HOST |-> <<>>, SMTP_PORT |-> <<>>,
              SMTP_USERNAME |-> <<>>, SMTP_PASSWORD |-> <<>>]
    /\ mail = [op |-> "none"]

Init == RoomInit(FALSE)

Next == RoomNext

\* the handlers, one request at a time
Spec == Init /\ [][Next]_vars

ConcInit == RoomInit(TRUE)

\* the handlers, their steps interleaved
ConcSpec == ConcInit /\ [][ConcNext]_vars

(***************************************************************************)
(* The e-mail specifications                                               *)
(***************************************************************************)
NoMail == [op |-> "none"]

\* one call of sendResendEmail
Send(to, fromEmail, netOk) ==
    /\ mail' = [op |-> "send", to |-> to, fromEmail |-> fromEmail,
                res |-> sendResendEmail(env, to, fromEmail, netOk)]
    /\ UNCHANGED <<env, roomVars>>

\* one call of resolveFromEmail
Resolve(requested) ==
    /\ mail' = [op |-> "resolve", requested |-> requested,
                res |-> resolveFromEmail(env, requested)]
    /\ UNCHANGED <<env, roomVars>>

\* one call of SendAdminInviteEmail
Invite(recipientEmail, inviteLink, name, role, fromEmail, netOk) ==
    /\ mail' = SendAdminInviteEmail(env, recipientEmail, inviteLink, name, role,
                                    fromEmail, netOk)
    /\ UNCHANGED <<env, roomVars>>

MailInit ==
    /\ env \in Envs
    /\ mail = NoMail
    /\ RoomInitVars
    /\ concurrent = FALSE

MailNext ==
    \/ \E to \in Recipients, f \in Senders, ok \in BOOLEAN : Send(to, f, ok)
    \/ \E f \in Senders : Resolve(f)

MailSpec == MailInit /\ [][MailNext]_vars

InviteInit ==
    /\ env \in InviteEnvs
    /\ mail = NoMail
    /\ RoomInitVars
    /\ concurrent = FALSE

InviteNext ==
    \E l \in Links, n \in FreeTexts, r \in Roles, ok \in BOOLEAN :
        Invite(<<"x">>, l, n, r, <<>>, ok)

InviteSpec == InviteInit /\ [][InviteNext]_vars

(***************************************************************************)
(* Properties of the e-mail dispatcher                                     *)
(***************************************************************************)
Blank(s) == TrimSpace(s) = <<>>

HostedConfigured == ~Blank(env.RESEND_API_KEY)

SMTPConfigured ==
    /\ ~Blank(env.SMTP_HOST)
    /\ ~Blank(env.SMTP_PORT)
    /\ ~Blank(env.SMTP_USERNAME)
    /\ ~Blank(env.SMTP_PASSWORD)

\* C1: every send takes exactly one delivery path: the hosted API when
\* RESEND_API_KEY is not blank; else direct SMTP when host, port, username
\* and password are all not blank; else no network call at all and success.
\* At most one network call is made, and only on the transport of that path.
C1_TransportSelection ==
    mail.op = "send" =>
        LET r == mail.res
        IN  /\ r.path \in {"resend", "smtp", "mock"}
            /\ Len(r.net) <= 1
            /\ \A i \in 1..Len(r.net) : r.net[i].transport = r.path
            /\ HostedConfigured => r.path = "resend"
            /\ (~HostedConfigured /\ SMTPConfigured) => r.path = "smtp"
            /\ (~HostedConfigured /\ ~SMTPConfigured) =>
                   (r.path = "mock" /\ r.net = <<>> /\ r.err = "nil")

\* a blank but non-empty key: the send fell through to SMTP and reached the network
C1_Witness ==
    /\ mail.op = "send"
    /\ env.RESEND_API_KEY = <<"SP">>
    /\ mail.res.path = "smtp"
    /\ Len(mail.res.net) = 1

\* C2 as stated: in every configuration a send to an empty recipient list fails
\* with EmptyRecipients and makes no network call.
C2_EmptyRecipientsAlwaysFail ==
    (mail.op = "send" /\ mail.to = <<>>) =>
        (mail.res.err = "EmptyRecipients" /\ mail.res.net = <<>>)

\* C2 as amended: a send to an empty recipient list makes no network call in
\* any configuration; it fails with EmptyRecipients when a transport is
\* configured, and returns success (mock delivery) when none is.
C2_EmptyRecipients ==
    (mail.op = "send" /\ mail.to = <<>>) =>
        /\ mail.res.net = <<>>
        /\ mail.res.err =
               (IF HostedConfigured \/ SMTPConfigured THEN "EmptyRecipients" ELSE "nil")

C2_Witness ==
    /\ mail.op = "send"
    /\ mail.to = <<>>
    /\ mail.res.path = "smtp"
    /\ mail.res.err = "EmptyRecipients"

\* C3 as stated: on either transport the sender address handed over belongs,
\* ignoring case, to the effective allow-list whenever that list is not empty.
C3_SenderAllowedOnEveryTransport ==
    mail.op = "send" =>
        \A i \in 1..Len(mail.res.net) :
            parseAllowedFromEmails(env) # {} =>
                ToLower(mail.res.net[i].from) \in parseAllowedFromEmails(env)

\* C3 as amended: on the hosted-API transport the sender address handed over
\* is what the resolver returned and belongs, ignoring case, to the effective
\* allow-list whenever that list is not empty; on the direct-SMTP transport
\* the allow-list is not consulted and the sender equals SMTP_USERNAME
\* ignoring case.
C3_SenderAllowed ==
    mail.op = "send" =>
        \A i \in 1..Len(mail.res.net) :
            LET c == mail.res.net[i]
                requested == TrimSpace(mail.fromEmail)
            IN  /\ c.transport = "resend" =>
                    /\ c.from = (IF requested = <<>> THEN resendDefaultFrom(env)
                                 ELSE requested)
                    /\ parseAllowedFromEmails(env) # {} =>
                           ToLower(c.from) \in parseAllowedFromEmails(env)
                /\ c.transport = "smtp" =>
                       ToLower(c.from) = ToLower(TrimSpace(env.SMTP_USERNAME))

\* the hosted API was handed a requested sender that is on an explicit
\* allow-list only when case is ignored
C3_Witness ==
    /\ mail.op = "send"
    /\ mail.fromEmail = <<"SP", "A">>
    /\ ~Blank(env.RESEND_FROM_EMAILS)
    /\ Len(mail.res.net) = 1
    /\ mail.res.net[1].transport = "resend"
    /\ mail.res.net[1].from = <<"A">>

\* C4: resolveFromEmail returns the trimmed requested address, or the default
\* sender when the request is blank; SenderNotConfigured when that leaves no
\* address; SenderNotAllowed exactly when the address, lower-cased, is absent
\* from a non-empty allow-list; and never an address outside such a list.
C4_Resolve ==
    mail.op = "resolve" =>
        LET requested == TrimSpace(mail.requested)
            fromEnv == TrimSpace(env.RESEND_FROM_EMAIL)
            default == IF fromEnv = <<>> THEN TrimSpace(env.SMTP_USERNAME) ELSE fromEnv
            address == IF requested = <<>> THEN default ELSE requested
            allowed == parseAllowedFromEmails(env)
            r == mail.res
        IN  /\ r.err \in {"nil", "SenderNotConfigured", "SenderNotAllowed"}
            /\ r.err = "SenderNotConfigured" <=> address = <<>>
            /\ r.err = "SenderNotAllowed" <=>
                   (address # <<>> /\ allowed # {} /\ ToLower(address) \notin allowed)
            /\ r.err = "nil" =>
                   (r.value = address /\ (allowed # {} => ToLower(r.value) \in allowed))

\* a request that needs trimming and lower-casing to be found on an explicit list
C4_Witness ==
    /\ mail.op = "resolve"
    /\ mail.requested = <<"SP", "A">>
    /\ ~Blank(env.RESEND_FROM_EMAILS)
    /\ mail.res.err = "nil"
    /\ mail.res.value = <<"A">>

\* C5: on the direct-SMTP path with recipients, the message reaches the
\* mail-transfer client exactly when the sender (the trimmed request, or
\* SMTP_USERNAME when the request is blank) equals SMTP_USERNAME ignoring
\* case; otherwise the send fails with SenderMismatch and no network call.
C5_SMTPSender ==
    (mail.op = "send" /\ ~HostedConfigured /\ SMTPConfigured /\ mail.to # <<>>) =>
        LET user == TrimSpace(env.SMTP_USERNAME)
            requested == TrimSpace(mail.fromEmail)
            sender == IF requested = <<>> THEN user ELSE requested
            r == mail.res
        IN  IF ToLower(sender) = ToLower(user)
            THEN /\ Len(r.net) = 1
                 /\ r.net[1].transport = "smtp"
                 /\ r.net[1].from = sender
                 /\ r.net[1].envelope = user
                 /\ r.err \in {"nil", "TransportError"}
            ELSE r.err = "SenderMismatch" /\ r.net = <<>>

\* a sender that differs from SMTP_USERNAME only in case was handed over
C5_Witness ==
    /\ mail.op = "send"
    /\ ~HostedConfigured
    /\ mail.fromEmail = <<"C">>
    /\ TrimSpace(env.SMTP_USERNAME) = <<"c">>
    /\ Len(mail.res.net) = 1
    /\ mail.res.err = "nil"

InterpolatedSegments ==
    {mail.plainBody[i].s : i \in {j \in 1..Len(mail.plainBody) : mail.plainBody[j].kind = "arg"}}
    \cup
    {mail.htmlBody[i].s : i \in {j \in 1..Len(mail.htmlBody) : mail.htmlBody[j].kind = "arg"}}

\* C9: the segments of the two invitation bodies that come from name, role and
\* link hold no carriage return and no line feed, paired or alone, and no
\* leading or trailing whitespace.
C9_NoCRLFInSegments ==
    mail.op = "invite" =>
        \A seg \in InterpolatedSegments :
            /\ \A i \in 1..Len(seg) : seg[i] \notin {"CR", "LF"}
            /\ TrimSpace(seg) = seg

(***************************************************************************)
(* Properties of the room handlers and the access-code generator           *)
(***************************************************************************)
RECURSIVE DecimalValue(_)
DecimalValue(s) ==
    IF s = <<>> THEN 0
    ELSE 10 * DecimalValue(SubSeq(s, 1, Len(s) - 1))
         + (CHOOSE d \in 0..9 : DigitChars[d + 1] = s[Len(s)])

IsAccessCode(s) ==
    /\ Len(s) = CodeWidth
    /\ \A i \in 1..Len(s) : \E d \in 1..10 : DigitChars[d] = s[i]

GenFailures == {"rand", "store", "exhausted"}

\* C6: generateUniqueAccessCode makes at most 5 attempts; it returns at the
\* first attempt whose count is zero, with a 6-digit zero-padded decimal
\* code that no room holds; it fails with ExhaustedAttempts exactly when 5
\* attempts collided; a randomness or store error ends it at that attempt.
C6_Generator ==
    \A p \in Procs :
        LET r == proc[p]
        IN  r.genCalled =>
            /\ r.attempts <= MaxAttempts
            /\ r.pc = "gen" =>
                   (r.genRes = "running" /\ r.attempts < MaxAttempts
                    /\ r.collisions = r.attempts)
            /\ r.genRes = "running" => r.pc = "gen"
            /\ r.genRes = "ok" =>
                   /\ r.collisions = r.attempts - 1
                   /\ IsAccessCode(r.code)
                   /\ r.n \in 0..(RandMax - 1)
                   /\ DecimalValue(r.code) = r.n
                   /\ r.pc = "write" => \A room \in rooms : room.accessCode # r.code
            /\ r.genRes = "exhausted" <=> r.collisions = MaxAttempts
            /\ r.genRes = "exhausted" => r.attempts = MaxAttempts
            /\ r.genRes \in {"rand", "store"} =>
                   (r.collisions = r.attempts - 1 /\ r.pc = "done")

\* the generator returned a padded code after its first attempts collided
C6_Witness ==
    \E p \in Procs :
        /\ proc[p].pc = "write"
        /\ proc[p].genRes = "ok"
        /\ proc[p].collisions >= 2
        /\ proc[p].code = Sprintf06d(7)

\* C7: no two rooms of the store hold the same access code.
C7_UniqueAccessCodes ==
    \A r1, r2 \in rooms : r1.id # r2.id => r1.accessCode # r2.accessCode

\* what C8 names as the two situations, for a parsed request as it was received
C8_SituationAsStated(r) ==
    \/ r.op = "create" /\ r.bound /\ Blank(r.suppliedCode)
    \/ /\ r.op = "update"
       /\ r.bound
       /\ r.hasStatus
       /\ EqualFold(r.storedStatus, Cleaning)
       /\ EqualFold(r.status, Available)

C10_DuplicateOnlyByRace ==
    \A r1, r2 \in rooms :
        (r1.id # r2.id /\ r1.accessCode = r2.accessCode
         /\ r1.generated /\ r2.generated) => (r1.raced \/ r2.raced)

\* both generators saw the code unused, both returned it, both writes succeeded
C10_Witness ==
    /\ concurrent
    /\ \E r1, r2 \in rooms :
           /\ r1.id # r2.id
           /\ r1.accessCode = r2.accessCode
           /\ r1.generated /\ r2.generated
           /\ r1.raced \/ r2.raced

====
